---- MODULE Spec2Model ----
(***************************************************************************)
(* A model of voluptuous/schema_builder.py and voluptuous/error.py: the    *)
(* Schema facade, the recursive schema compiler and the validators it      *)
(* produces, with the error objects they raise.                            *)
(*                                                                         *)
(* Python values are records.  An atom is [t, v] with t the name of its    *)
(* class and v its text (str(x)); a dict is [t, items] with its items in   *)
(* insertion order; a list, tuple or set is [t, elems] with its elements   *)
(* in iteration order; a Marker is [t, schema, msg, default, group].  A    *)
(* call either returns or raises: [ok |-> TRUE, val] or [ok |-> FALSE,     *)
(* exc].                                                                   *)
(***************************************************************************)
EXTENDS Integers, Sequences, FiniteSets, TLC

VARIABLES
    pc,         \* "start", "ready" (constructed), "returned" (a call ended), "schema_error",
                \* "returned_again" (a call on the output of the last call ended),
                \* "extended", "extend_error" (extend ended), "returned_extended"
    schema,     \* the Schema object: [schema, required, extra]
    data,       \* the argument of the call in progress
    result,     \* what the last operation returned or raised
    hashseed,   \* the interpreter's hash seed: fixes the iteration order of sets
    extension,  \* the arguments of the last extend(): [schema, required, extra]
    extended,   \* the Schema object that extend() returned
    calls       \* the invocations of the Schema that run at the same time, each
                \* with its position and its local variables

vars == <<pc, schema, data, result, hashseed, extension, extended, calls>>

RECURSIVE _compile(_, _)
RECURSIVE Apply(_, _, _, _)
RECURSIVE Schema__call__(_, _)
RECURSIVE StrOfError(_)

-----------------------------------------------------------------------------
(* Python values *)

None == [t |-> "NoneType", v |-> "None"]
PyInt(s) == [t |-> "int", v |-> s]
PyStr(s) == [t |-> "str", v |-> s]
PyType(n) == [t |-> "type", v |-> n]
PyFunction(n) == [t |-> "function", v |-> n]
Item(k, x) == [key |-> k, value |-> x]
PyDict(items) == [t |-> "dict", items |-> items]
PySeq(kind, elems) == [t |-> kind, elems |-> elems]
\* an instance of a user-defined class cls with the attributes attrs (__dict__)
PyInstance(cls, attrs) == [t |-> cls, items |-> attrs]

Return(x) == [ok |-> TRUE, val |-> x]
Raise(e) == [ok |-> FALSE, exc |-> e]

MarkerClasses == {"Required", "Optional", "Exclusive", "Inclusive", "Remove"}
IsMarker(x) == x.t \in MarkerClasses
IsContainer(x) == x.t \in {"dict", "list", "tuple", "set"}

\* Marker.__eq__ compares the wrapped schema with the other operand; every
\* other key of the model (str, int, NoneType, type) compares structurally.
Unwrap(x) == IF IsMarker(x) THEN x.schema ELSE x
PyEq(a, b) == Unwrap(a) = Unwrap(b)

\* isinstance(x, cls) for the classes of the model: Object is a subclass of
\* dict, and every class one of object
IsInstance(x, cls) == cls = "object" \/ x.t = cls \/ (cls = "dict" /\ x.t = "Object")

\* cls(x) for an x that is an instance of cls: int(1) is 1, str('a') is 'a'
Construct_(cls, x) == IF cls \in {"int", "str"} THEN [t |-> cls, v |-> x.v] ELSE x

\* str(x) of a schema key: Marker.__str__ is str(self.schema)
StrOf(x) ==
    LET u == Unwrap(x) IN
    IF u.t = "type" THEN "<class '" \o u.v \o "'>" ELSE u.v

\* the strings of the model in Python's (code point) order
StrOrder == <<"0", "1", "2", "<class 'int'>", "<class 'str'>", "None",
              "a", "b", "c", "m", "x">>
StrRank(s) == CHOOSE i \in DOMAIN StrOrder : StrOrder[i] = s

\* repr(x) of a path element: Marker.__repr__ is repr(self.schema), and
\* Remove.__repr__ is 'Remove(%r)'
ReprPlain(x) == IF x.t = "str" THEN "'" \o x.v \o "'" ELSE StrOf(x)
Repr(x) ==
    IF x.t = "Remove" THEN "Remove(" \o ReprPlain(x.schema) \o ")"
    ELSE ReprPlain(Unwrap(x))

\* dict operations: lookup and assignment find the key by hash and ==.
\* A Marker hashes as its schema does, but Remove.__init__ sets the hash of
\* object: a Remove key is found by no other object, and finds none.
SameKey(stored, k) == PyEq(stored, k) /\ stored.t # "Remove" /\ k.t # "Remove"
DictHas(d, k) == \E i \in DOMAIN d.items : SameKey(d.items[i].key, k)
DictIndex(d, k) == CHOOSE i \in DOMAIN d.items : SameKey(d.items[i].key, k)
DictGet(d, k) == d.items[DictIndex(d, k)].value
DictSet(d, k, x) ==
    IF DictHas(d, k)
    THEN [d EXCEPT !.items[DictIndex(d, k)].value = x]
    ELSE [d EXCEPT !.items = Append(@, Item(k, x))]

Reverse(s) == [i \in DOMAIN s |-> s[Len(s) + 1 - i]]

\* the iteration order of a set built by adding the elements of s in order:
\* it depends on the hashes, hence on the hash seed
SetIter(s) == IF hashseed = 0 THEN s ELSE Reverse(s)

RECURSIVE Dedup(_)
Dedup(s) ==
    IF s = <<>> THEN <<>>
    ELSE LET r == Dedup(SubSeq(s, 1, Len(s) - 1)) IN
         IF \E i \in DOMAIN r : r[i] = s[Len(s)] THEN r ELSE Append(r, s[Len(s)])

-----------------------------------------------------------------------------
(* error.py *)

InvalidClasses == {"Invalid", "MultipleInvalid", "RequiredFieldInvalid",
                   "ObjectInvalid", "DictInvalid", "ExclusiveInvalid",
                   "InclusiveInvalid", "SequenceTypeInvalid", "TypeInvalid",
                   "ValueInvalid", "ScalarInvalid", "RangeInvalid"}

\* Invalid.__init__(message, path=None): error_type is never passed
Invalid(cls, message, path) ==
    [cls |-> cls, msg |-> message, path |-> path, error_type |-> None]

\* SchemaError, and the built-in exceptions that pass through
Exception(cls, message) == [cls |-> cls, msg |-> message]

IsInvalid(e) == e.cls \in InvalidClasses

RECURSIVE Join(_, _)
Join(parts, sep) ==
    IF parts = <<>> THEN ""
    ELSE IF Len(parts) = 1 THEN parts[1]
    ELSE parts[1] \o sep \o Join(Tail(parts), sep)

\* _path_string(path), and the same text in Invalid.__str__
_path_string(path) ==
    IF path = <<>> THEN ""
    ELSE " @ data[" \o Join([i \in DOMAIN path |-> Repr(path[i])], "][") \o "]"

\* Invalid.__str__ / MultipleInvalid.__str__
StrOfError(e) ==
    IF e.cls = "MultipleInvalid" THEN StrOfError(e.errors[1])
    ELSE e.msg \o _path_string(e.path)

\* MultipleInvalid.__init__(errors)
MultipleInvalid(errors) ==
    [cls |-> "MultipleInvalid",
     errors |-> errors,
     msg |-> IF errors = <<>> THEN "" ELSE StrOfError(errors[1]),
     path |-> IF errors = <<>> THEN <<>> ELSE errors[1].path]

-----------------------------------------------------------------------------
(* schema_builder.py: constants, markers and the callables of the model *)

PREVENT_EXTRA == 0
ALLOW_EXTRA == 1
REMOVE_EXTRA == 2

\* bool(x) of a message: None and '' are false
Truthy(x) == x # None /\ x.v # ""

\* default_factory(value): UNDEFINED gives a function returning None, a
\* callable is returned as it is, any other value v gives lambda: v.
\* The model's UNDEFINED is [t |-> "Undefined", v |-> "..."].
UNDEFINED == [t |-> "Undefined", v |-> "..."]
default_factory(value) ==
    IF value = UNDEFINED THEN [t |-> "function", v |-> "lambda", returns |-> None]
    ELSE IF value.t \in {"function", "type"} THEN value
    ELSE [t |-> "function", v |-> "lambda", returns |-> value]

\* Marker.__init__ and the __init__ of its subclasses: Marker and Remove have
\* no default and only Exclusive and Inclusive have a group; the record keeps
\* the same fields for all of them, None where the class has no such attribute.
Marker(cls, schema_, msg, default, group) ==
    [t |-> cls, schema |-> schema_, msg |-> msg,
     default |-> IF cls = "Remove" THEN None
                 ELSE IF cls = "Exclusive" THEN default_factory(UNDEFINED)
                 ELSE default_factory(default),
     group |-> IF cls \in {"Exclusive", "Inclusive"} THEN group ELSE None]

\* Schema.__init__ stores schema, required and int(extra); _compiled is
\* _compile(self, self.schema), a closure over self, and is not stored apart.
SchemaObject(tree, required, extra) ==
    [t |-> "Schema", schema |-> tree, required |-> required, extra |-> extra]

Digits == {"0", "1", "2"}

\* the user-written validator function of the model: lambda v: int(v)
to_int(x) ==
    IF x.t = "int" THEN Return(x)
    ELSE IF x.t = "str" THEN
        IF x.v \in Digits THEN Return(PyInt(x.v))
        ELSE Raise(Exception("ValueError", "invalid literal for int()"))
    ELSE Raise(Exception("TypeError", "int() argument must be a string or a number"))

\* the except clause of Marker.__call__, given the outcome r of the try body
MarkerExcept(m, r) ==
    IF r.ok \/ ~IsInvalid(r.exc) THEN r
    ELSE IF ~Truthy(m.msg) \/ Len(r.exc.path) > 1 THEN r
    ELSE Raise(Invalid("Invalid", m.msg.v, <<>>))

\* Marker.__call__(v): validate with the marker's own Schema (required=False,
\* extra=PREVENT_EXTRA); a failure at the marker's own site takes its message
Marker__call__(m, x) ==
    MarkerExcept(m, Schema__call__(SchemaObject(m.schema, FALSE, PREVENT_EXTRA), x))

\* "return self.__class__" after the outcome r of super().__call__(v)
RemoveReturn(r) == IF r.ok THEN Return(PyType("Remove")) ELSE r

\* Remove.__call__(v): validates, then returns the class Remove
Remove__call__(m, x) == RemoveReturn(Marker__call__(m, x))

\* the except clause of Msg.__call__, given the outcome r of self.schema(v)
MsgExcept(m, r) ==
    IF r.ok \/ ~IsInvalid(r.exc) THEN r
    ELSE IF Len(r.exc.path) > 1 THEN r
    ELSE Raise(Invalid(IF m.cls = None THEN "Invalid" ELSE m.cls.v, m.msg.v, <<>>))

\* Msg.__call__(v): validate with the Schema made of the wrapped schema
Msg__call__(m, x) ==
    MsgExcept(m, Schema__call__(SchemaObject(m.schema, FALSE, PREVENT_EXTRA), x))

\* schema(data) for a callable schema node
CallCallable(f, x) ==
    IF f.t = "Schema" THEN Schema__call__(f, x)
    ELSE IF f.t = "Msg" THEN Msg__call__(f, x)
    ELSE IF f.t = "Remove" THEN Remove__call__(f, x)
    ELSE IF IsMarker(f) THEN Marker__call__(f, x)
    ELSE to_int(x)

-----------------------------------------------------------------------------
(* _compile_scalar and its three validators *)

_compile_scalar(schema_) ==
    IF schema_.t = "type" THEN [fn |-> "validate_instance", schema |-> schema_]
    ELSE IF schema_.t \in {"function", "Schema", "Msg"} \/ IsMarker(schema_)
         THEN [fn |-> "validate_callable", schema |-> schema_]
    ELSE [fn |-> "validate_value", schema |-> schema_]

validate_instance(schema_, path, data_) ==
    IF IsInstance(data_, schema_.v) THEN Return(data_)
    ELSE Raise(Invalid("TypeInvalid",
                       "expected " \o schema_.v \o " for " \o _path_string(path),
                       <<>>))

\* the except clauses of validate_callable, given the outcome r of schema(data)
CallableExcept(path, r) ==
    IF r.ok THEN r
    ELSE IF r.exc.cls = "ValueError"
         THEN Raise(Invalid("Invalid", "not a valid value", <<>>))
    ELSE IF IsInvalid(r.exc) THEN Raise([r.exc EXCEPT !.path = path \o @])
    ELSE r

validate_callable(schema_, path, data_) ==
    CallableExcept(path, CallCallable(schema_, data_))

validate_value(schema_, path, data_) ==
    IF data_ # schema_ THEN Raise(Invalid("ScalarInvalid", "not a valid value", <<>>))
    ELSE Return(data_)

-----------------------------------------------------------------------------
(* _compile_mapping: the order of the keys, the required keys, duplicates *)

\* sort_item(item): Required markers, then the other markers, then plain keys
_sort_item(item) ==
    [group |-> IF IsMarker(item.key) THEN (IF item.key.t = "Required" THEN 0 ELSE 1)
               ELSE 2,
     name |-> StrOf(item.key)]

\* comparison of the (int, str) tuples that sort_item returns
SortKeyLess(a, b) ==
    \/ a.group < b.group
    \/ a.group = b.group /\ StrRank(a.name) < StrRank(b.name)

\* sorted(schema.items(), key=_sort_item): a stable sort
RECURSIVE _iterate_mapping_candidates(_)
_iterate_mapping_candidates(items) ==
    IF items = <<>> THEN <<>>
    ELSE LET rest == _iterate_mapping_candidates(SubSeq(items, 1, Len(items) - 1))
             x == items[Len(items)]
             \* x goes after every element that is not greater than it
             n == Cardinality({i \in DOMAIN rest :
                                 ~SortKeyLess(_sort_item(x), _sort_item(rest[i]))})
         IN SubSeq(rest, 1, n) \o <<x>> \o SubSeq(rest, n + 1, Len(rest))

RECURSIVE DictFromItems(_)
DictFromItems(items) ==
    IF items = <<>> THEN PyDict(<<>>)
    ELSE DictSet(DictFromItems(SubSeq(items, 1, Len(items) - 1)),
                 items[Len(items)].key, items[Len(items)].value)

\* required_keys: only the keys marked Required; self.required is not read
RequiredKeys(self, key_schema) ==
    SetIter(SelectSeq(key_schema, LAMBDA k : k.t = "Required"))

\* the keys whose str() is checked for duplicates: the marker keys
HasDuplicates(names) ==
    \E i, j \in DOMAIN names : i # j /\ names[i] = names[j]

_compile_mapping(self, schema_, invalid_msg) ==
    LET cands == _iterate_mapping_candidates(schema_.items)
        keys == [i \in DOMAIN cands |-> cands[i].key]
        key_schema == SetIter(SelectSeq(keys, IsMarker))
        value_schema == DictFromItems(cands)
        key_names == [i \in DOMAIN key_schema |-> StrOf(key_schema[i])]
    IN IF HasDuplicates(key_names)
       THEN Raise(Exception("SchemaError", "duplicate keys found: ["
                                         \o Join([i \in DOMAIN key_names |->
                                                    "'" \o key_names[i] \o "'"], ", ")
                                         \o "]"))
       ELSE Return([fn |-> "validate_dict",
                    required_keys |-> RequiredKeys(self, SelectSeq(keys, IsMarker)),
                    value_schema |-> value_schema,
                    invalid_msg |-> invalid_msg])

_compile_dict(self, schema_) == _compile_mapping(self, schema_, "dictionary value")

\* validate_object closes over schema and over the compiled mapping
ObjectValidator(schema_, compiled_schema) ==
    IF ~compiled_schema.ok THEN compiled_schema
    ELSE Return([fn |-> "validate_object", schema |-> schema_,
                 compiled_schema |-> compiled_schema.val])

_compile_object(self, schema_) ==
    ObjectValidator(schema_, _compile_mapping(self, schema_, "object value"))

_compile_sequence(self, schema_, seq_type) ==
    Return([fn |-> "validate_sequence", schema |-> schema_, seq_type |-> seq_type])

\* Schema._compile: dispatch on the class of the schema node
_compile(self, schema_) ==
    IF IsInstance(schema_, "dict") THEN _compile_dict(self, schema_)
    ELSE IF schema_.t \in {"list", "tuple", "set"}
         THEN _compile_sequence(self, schema_, schema_.t)
    ELSE IF IsInstance(schema_, "Object") THEN _compile_object(self, schema_)
    ELSE Return(_compile_scalar(schema_))

-----------------------------------------------------------------------------
(* validate_dict *)

NoRaise == Return(None)

\* RequiredMissing with the key left out of the path
RequiredMissing_PathWithoutKey(key, path) ==
    Invalid("RequiredFieldInvalid",
            IF Truthy(key.msg) THEN key.msg.v ELSE "required key not provided",
            path)

\* errors.append(RequiredFieldInvalid(...)) for a required key not in data
RequiredMissing(key, path) ==
    Invalid("RequiredFieldInvalid",
            IF Truthy(key.msg) THEN key.msg.v ELSE "required key not provided",
            path \o <<key>>)

\* the outcome of validating one value: stored in out, appended to errors,
\* or, for an exception that is no Invalid, raised out of validate_dict
Collect(acc, key, r) ==
    IF r.ok THEN [acc EXCEPT !.out = DictSet(@, key, r.val)]
    ELSE IF IsInvalid(r.exc) THEN [acc EXCEPT !.errors = Append(@, r.exc)]
    ELSE [acc EXCEPT !.raised = r]

\* c(path, value) for the outcome c of a compilation
ApplyCompiled(self, c, path, value) ==
    IF c.ok THEN Apply(self, c.val, path, value) ELSE c

\* self._compile(sub)(path + [key], value)
CompileAndApply(self, sub, path, value) ==
    ApplyCompiled(self, _compile(self, sub), path, value)

\* a required key that was validated is skipped by the loop over the data
MarkSeen(acc, key) ==
    IF acc.raised.ok THEN [acc EXCEPT !.seen = @ \cup {key}] ELSE acc

\* one turn of "for key in required_keys"
RequiredStep(self, v, path, data_, key, acc) ==
    IF ~DictHas(data_, key)
    THEN [acc EXCEPT !.errors = Append(@, RequiredMissing(key, path))]
    ELSE MarkSeen(Collect(acc, key,
                          CompileAndApply(self, DictGet(v.value_schema, key),
                                          path \o <<key>>, DictGet(data_, key))),
                  key)

RECURSIVE RequiredLoop(_, _, _, _, _, _)
RequiredLoop(self, v, path, data_, keys, acc) ==
    IF keys = <<>> \/ ~acc.raised.ok THEN acc
    ELSE RequiredLoop(self, v, path, data_, Tail(keys),
                      RequiredStep(self, v, path, data_, Head(keys), acc))

\* the search of value_schema for the schema of an input key: the first
\* schema key that equals it, or that is a type it is an instance of
KeyMatches(skey, key) ==
    PyEq(skey, key) \/ (skey.t = "type" /\ IsInstance(key, skey.v))

FindKey(value_schema, key) ==
    LET hits == {i \in DOMAIN value_schema.items :
                   KeyMatches(value_schema.items[i].key, key)}
    IN IF hits = {} THEN [found |-> FALSE, svalue |-> None, key |-> key]
       ELSE LET i == CHOOSE i \in hits : \A j \in hits : i <= j
                skey == value_schema.items[i].key
            IN [found |-> TRUE,
                svalue |-> value_schema.items[i].value,
                key |-> IF PyEq(skey, key) THEN key ELSE Construct_(skey.v, key)]

\* ExtraKey with REMOVE_EXTRA keeping the key, as ALLOW_EXTRA does
ExtraKey_RemoveKeeps(self, acc, path, key, value) ==
    IF self.extra = PREVENT_EXTRA
    THEN [acc EXCEPT !.errors =
              Append(@, Invalid("Invalid", "extra keys not allowed", path \o <<key>>))]
    ELSE [acc EXCEPT !.out = DictSet(@, key, value)]

\* an input key no schema key matches: the extra-key policy
ExtraKey(self, acc, path, key, value) ==
    IF self.extra = PREVENT_EXTRA
    THEN [acc EXCEPT !.errors =
              Append(@, Invalid("Invalid", "extra keys not allowed", path \o <<key>>))]
    ELSE IF self.extra = ALLOW_EXTRA
    THEN [acc EXCEPT !.out = DictSet(@, key, value)]
    ELSE acc

\* one turn of "for key, value in data.items()"
DataStep(self, v, path, item, acc) ==
    IF \E k \in acc.seen : PyEq(k, item.key) THEN acc
    ELSE LET f == FindKey(v.value_schema, item.key) IN
         IF ~f.found THEN ExtraKey(self, acc, path, f.key, item.value)
         ELSE Collect(acc, f.key,
                      CompileAndApply(self, f.svalue, path \o <<f.key>>, item.value))

RECURSIVE DataLoop(_, _, _, _, _)
DataLoop(self, v, path, items, acc) ==
    IF items = <<>> \/ ~acc.raised.ok THEN acc
    ELSE DataLoop(self, v, path, Tail(items), DataStep(self, v, path, Head(items), acc))

\* the end of validate_dict: "if errors: raise MultipleInvalid(errors)",
\* "return out"; an exception that escaped a loop goes on up
RaiseOrReturn(acc) ==
    IF ~acc.raised.ok THEN acc.raised
    ELSE IF acc.errors # <<>> THEN Raise(MultipleInvalid(acc.errors))
    ELSE Return(acc.out)

validate_dict(self, v, path, data_) ==
    IF ~IsInstance(data_, "dict")
    THEN Raise(Invalid("DictInvalid", "expected a dictionary", <<>>))
    ELSE RaiseOrReturn(
             DataLoop(self, v, path, data_.items,
                      RequiredLoop(self, v, path, data_, v.required_keys,
                                   [out |-> PyDict(<<>>), errors |-> <<>>,
                                    seen |-> {}, raised |-> NoRaise])))

\* _iterate_object(obj): the attributes of an object without __slots__
_iterate_object(obj) == obj.items

validate_object(self, v, path, data_) ==
    IF v.schema.cls # UNDEFINED /\ ~IsInstance(data_, v.schema.cls.v)
    THEN Raise(Invalid("ObjectInvalid",
                       "expected instance of " \o StrOf(v.schema.cls), <<>>))
    ELSE validate_dict(self, v.compiled_schema, path, PyDict(_iterate_object(data_)))

-----------------------------------------------------------------------------
(* validate_sequence *)

\* SeqTypeOk taking a sequence of any kind for the declared one
SeqTypeOk_AnySequence(data_, seq_type) == data_.t \in {"list", "tuple", "set"}

\* isinstance(data, seq_type)
SeqTypeOk(data_, seq_type) == IsInstance(data_, seq_type)

\* the candidates tried in order on one element: the first that returns
\* wins, an Invalid moves on to the next, any other exception is raised
RECURSIVE TryCandidates(_, _, _, _)
\* the outcome r of one candidate: taken, or the next candidate is tried
TryNext(self, cands, path, value, r) ==
    IF r.ok \/ ~IsInvalid(r.exc) THEN [valid |-> r.ok, r |-> r]
    ELSE TryCandidates(self, Tail(cands), path, value)

TryCandidates(self, cands, path, value) ==
    IF cands = <<>> THEN [valid |-> FALSE, r |-> NoRaise]
    ELSE TryNext(self, cands, path, value,
                 CompileAndApply(self, Head(cands), path, value))

\* "for i, value in enumerate(data)", from element i (counted from 1)
RECURSIVE ElementLoop(_, _, _, _, _, _)
\* ElementDone going on to the next element when no candidate took this one
ElementDone_SkipsUnmatched(self, v, path, elems, i, out, t) ==
    IF t.valid THEN ElementLoop(self, v, path, elems, i + 1, Append(out, t.r.val))
    ELSE IF ~t.r.ok THEN t.r
    ELSE ElementLoop(self, v, path, elems, i + 1, out)

\* the element was validated (t.valid): on to the next one; no candidate
\* took it: "raise Invalid('not a valid value for sequence item')"
ElementDone(self, v, path, elems, i, out, t) ==
    IF t.valid THEN ElementLoop(self, v, path, elems, i + 1, Append(out, t.r.val))
    ELSE IF ~t.r.ok THEN t.r
    ELSE Raise(Invalid("Invalid", "not a valid value for sequence item", <<>>))

ElementLoop(self, v, path, elems, i, out) ==
    IF i > Len(elems) THEN Return(out)
    ELSE ElementDone(self, v, path, elems, i, out,
                     TryCandidates(self, v.schema.elems,
                                   <<PyInt(ToString(i - 1))>> \o path, elems[i]))

\* seq_type(result): a set drops repeated elements and takes only hashable ones
SeqTypeCall(seq_type, out) ==
    IF seq_type # "set" THEN Return(PySeq(seq_type, out))
    ELSE IF \E i \in DOMAIN out : IsContainer(out[i]) /\ out[i].t # "tuple"
         THEN Raise(Exception("TypeError", "unhashable type"))
    ELSE Return(PySeq("set", Dedup(out)))

\* "return seq_type(result)" for the outcome r of the loop over the elements
SeqTypeReturn(seq_type, r) == IF r.ok THEN SeqTypeCall(seq_type, r.val) ELSE r

validate_sequence(self, v, path, data_) ==
    IF ~SeqTypeOk(data_, v.seq_type)
    THEN Raise(Invalid("SequenceTypeInvalid", "expected a " \o v.seq_type, <<>>))
    ELSE IF v.schema.elems = <<>> /\ data_.elems # <<>>
    THEN Raise(Invalid("Invalid", "not a valid value", <<>>))
    ELSE SeqTypeReturn(v.seq_type, ElementLoop(self, v, path, data_.elems, 1, <<>>))

-----------------------------------------------------------------------------
(* calling a compiled validator, and Schema.__call__ *)

\* validator(path, data) for a validator the compiler returned
Apply(self, v, path, data_) ==
    CASE v.fn = "validate_dict" -> validate_dict(self, v, path, data_)
      [] v.fn = "validate_object" -> validate_object(self, v, path, data_)
      [] v.fn = "validate_sequence" -> validate_sequence(self, v, path, data_)
      [] v.fn = "validate_instance" -> validate_instance(v.schema, path, data_)
      [] v.fn = "validate_callable" -> validate_callable(v.schema, path, data_)
      [] v.fn = "validate_value" -> validate_value(v.schema, path, data_)

\* the except clauses of Schema.__call__, given the outcome r of the try body
CallExcept(r) ==
    IF r.ok THEN r
    ELSE IF r.exc.cls = "MultipleInvalid" THEN r
    ELSE IF IsInvalid(r.exc) THEN Raise(MultipleInvalid(<<r.exc>>))
    ELSE r

\* Schema.__call__(data): self._compiled([], data); a MultipleInvalid is
\* raised again, any other Invalid is wrapped in a MultipleInvalid
Schema__call__(self, data_) ==
    CallExcept(CompileAndApply(self, self.schema, <<>>, data_))

\* Schema(schema, required, extra): the new object, or the SchemaError that
\* compiling the schema raised
Schema__init__(tree, required, extra) ==
    IF _compile(SchemaObject(tree, required, extra), tree).ok
    THEN Return(SchemaObject(tree, required, extra))
    ELSE _compile(SchemaObject(tree, required, extra), tree)

\* "for key, value in items: new_schema[key] = value"
RECURSIVE DictUpdate(_, _)
DictUpdate(d, items) ==
    IF items = <<>> THEN d
    ELSE DictUpdate(DictSet(d, Head(items).key, Head(items).value), Tail(items))

\* the end of extend: merge the two mappings and construct the new Schema;
\* other is the outcome of taking or constructing the extension Schema
ExtendMerge(self, other, required, extra) ==
    IF ~other.ok THEN other
    ELSE IF ~IsInstance(other.val.schema, "dict")
    THEN Raise(Exception("SchemaError", "extension schema is not a dictionary"))
    ELSE Schema__init__(DictUpdate(DictUpdate(PyDict(<<>>), self.schema.items),
                                   other.val.schema.items),
                        IF required = <<>> THEN self.required ELSE required[1],
                        IF extra = <<>> THEN self.extra ELSE extra[1])

\* Schema.extend(schema, required=None, extra=None); an argument left at
\* None is the empty sequence, a given one a sequence of one value
extend(self, schema_, required, extra) ==
    IF ~IsInstance(self.schema, "dict")
    THEN Raise(Exception("SchemaError", "original schema is not a dictionary"))
    ELSE IF ~IsInstance(schema_, "dict") /\ ~IsInstance(schema_, "Schema")
    THEN Raise(Exception("SchemaError", "extension schema is not a dictionary"))
    ELSE ExtendMerge(self,
                     IF schema_.t = "Schema" THEN Return(schema_)
                     ELSE Schema__init__(schema_, FALSE, PREVENT_EXTRA),
                     required, extra)

\* VirtualPathComponent(name): a str whose str() and repr() are '<name>'
VirtualPathComponent(name) == [t |-> "VirtualPathComponent", v |-> name]

-----------------------------------------------------------------------------
(* the schemas and the inputs of the model *)

MaxSeqLen == 2      \* the longest list, tuple or set given as input

A == PyStr("a")
B == PyStr("b")
C == PyStr("c")
One == PyInt("1")
X == PyStr("x")
int == PyType("int")
str == PyType("str")
lambda_int == PyFunction("to_int")

Required(k, msg, default) == Marker("Required", k, msg, default, None)
Optional(k, msg, default) == Marker("Optional", k, msg, default, None)
Exclusive(k, group) == Marker("Exclusive", k, None, UNDEFINED, PyStr(group))
Inclusive(k, group) == Marker("Inclusive", k, None, UNDEFINED, PyStr(group))
Remove(k) == Marker("Remove", k, None, UNDEFINED, None)

\* Msg(schema, msg, cls=None), for a cls that is None or a subclass of Invalid
Msg(schema_, msg, cls) == [t |-> "Msg", schema |-> schema_, msg |-> msg, cls |-> cls]

\* Object(schema, cls): a dict of the schema's items with the attribute cls
Object(schema_, cls) == [t |-> "Object", items |-> schema_.items, cls |-> cls]
Structure == PyType("Structure")

\* the ways the schema key for k is written
Labels(k) ==
    {k,
     Required(k, None, UNDEFINED), Required(k, PyStr("m"), UNDEFINED),
     Required(k, None, X),
     Optional(k, None, UNDEFINED), Optional(k, None, X),
     Exclusive(k, "g"), Inclusive(k, "g"), Remove(k)}

\* the entry of a mapping schema for 'a': absent, or any label with a type
\* or a literal as the schema of the value
EntriesA == {<<>>} \cup {<<Item(l, s)>> : l \in Labels(A), s \in {int, X}}

\* the entry for 'b': absent, or one of each kind of label
EntriesB ==
    {<<>>} \cup {<<Item(l, int)>> : l \in {B, Required(B, None, UNDEFINED),
                                          Optional(B, None, UNDEFINED),
                                          Exclusive(B, "g"), Inclusive(B, "g")}}

FlatTrees == {PyDict(ea \o eb) : ea \in EntriesA, eb \in EntriesB}

SeqsUpTo(S, n) == UNION {[1..k -> S] : k \in 0..n}
NoRepeats(s) == \A i, j \in DOMAIN s : i # j => s[i] # s[j]

SeqKinds == {"list", "tuple", "set"}

SeqTrees ==
    {PySeq(kind, c) : kind \in SeqKinds,
                      c \in {<<>>, <<int>>, <<X>>, <<X, int>>}}
    \cup {PySeq("list", <<lambda_int>>),
          PySeq("list", <<lambda_int, str>>),
          PySeq("list", <<lambda_int, None>>),
          PySeq("list", <<int, Remove(str)>>),
          PySeq("list", <<PyDict(<<Item(B, int)>>)>>)}

DuplicateKeys == PyDict(<<Item(Required(PyInt("1"), None, UNDEFINED), int),
                          Item(Required(PyStr("1"), None, UNDEFINED), int)>>)

NestedTrees ==
    {PyDict(<<Item(A, inner)>>) :
        inner \in {PyDict(<<Item(A, int), Item(B, X)>>),
                   PyDict(<<Item(Required(B, None, UNDEFINED), int)>>),
                   PySeq("list", <<PyDict(<<Item(B, int)>>)>>),
                   PySeq("list", <<int>>),
                   PySeq("tuple", <<int>>),
                   SchemaObject(PyDict(<<Item(B, int)>>), FALSE, PREVENT_EXTRA),
                   DuplicateKeys}}

OtherTrees ==
    {int, X, lambda_int, DuplicateKeys,
     PyDict(<<Item(str, int)>>),
     PyDict(<<Item(A, X), Item(str, int)>>),
     PyDict(<<Item(Required(A, None, UNDEFINED), int), Item(B, lambda_int)>>),
     PyDict(<<Item(Remove(A), int), Item(A, X)>>)}

ObjectTrees ==
    {Object(PyDict(<<Item(A, X)>>), Structure),
     Object(PyDict(<<Item(A, X), Item(B, int)>>), UNDEFINED)}

MsgTrees ==
    {Msg(PySeq("list", <<int>>), PyStr("m"), None),
     Msg(PySeq("list", <<PySeq("list", <<int>>)>>), PyStr("m"), None),
     Msg(PySeq("list", <<PySeq("list", <<int>>)>>), PyStr("m"), PyType("RangeInvalid")),
     Msg(PyDict(<<Item(A, PyDict(<<Item(Required(B, None, UNDEFINED), int)>>))>>),
         PyStr("m"), None)}

Trees == FlatTrees \cup SeqTrees \cup NestedTrees \cup OtherTrees \cup ObjectTrees
         \cup MsgTrees

FlatData ==
    {PyDict(a \o b \o c) :
        a \in {<<>>, <<Item(A, One)>>, <<Item(A, X)>>},
        b \in {<<>>, <<Item(B, One)>>},
        c \in {<<>>, <<Item(C, One)>>}}
    \cup {PyDict(<<Item(B, X)>>), PyDict(<<Item(B, None)>>),
          PyDict(<<Item(A, X), Item(B, X)>>)}

\* lists of up to MaxSeqLen elements; tuples and sets of up to one
SeqData ==
    {PySeq("list", e) : e \in SeqsUpTo({One, X}, MaxSeqLen)}
    \cup {PySeq(kind, e) : kind \in {"tuple", "set"}, e \in {<<>>, <<One>>, <<X>>}}
    \cup {PySeq("list", <<X, None>>), PySeq("list", <<None>>),
          PySeq("list", <<PyStr("1"), One>>)}

NestedData ==
    {PyDict(<<Item(A, inner)>>) :
        inner \in {PyDict(<<>>),
                   PyDict(<<Item(A, X), Item(B, One)>>),
                   PyDict(<<Item(A, One), Item(B, X)>>),
                   PyDict(<<Item(B, X), Item(C, One)>>),
                   PySeq("list", <<PyDict(<<Item(B, X)>>)>>),
                   PySeq("list", <<PyDict(<<Item(B, One)>>)>>),
                   PySeq("list", <<One>>),
                   PySeq("set", <<One>>)}}
    \cup {PySeq("list", <<PyDict(<<Item(B, One)>>)>>),
          PySeq("list", <<PySeq("list", <<X>>)>>),
          PySeq("list", <<PySeq("list", <<One>>)>>)}

\* the arguments of extend: the extension, and the overrides of required and extra
Extensions ==
    {PyDict(<<Item(A, int), Item(B, int)>>),
     PyDict(<<Item(Optional(A, None, UNDEFINED), int)>>),
     PyDict(<<Item(Remove(A), int)>>),
     SchemaObject(PyDict(<<Item(B, int)>>), FALSE, REMOVE_EXTRA),
     PySeq("list", <<int>>),
     DuplicateKeys}

Overrides == {<<<<>>, <<>>>>, <<<<TRUE>>, <<ALLOW_EXTRA>>>>}

\* the inputs given to an extended Schema
ExtendedData ==
    {PyDict(<<>>),
     PyDict(<<Item(A, One)>>),
     PyDict(<<Item(A, One), Item(B, One)>>),
     PyDict(<<Item(A, X), Item(B, One)>>)}

\* instances of the class Structure and of another class
ObjectData ==
    {PyInstance("Structure", <<Item(A, X)>>),
     PyInstance("Structure", <<Item(A, One)>>),
     PyInstance("Point", <<Item(A, X)>>)}

Data == {None, One, X, PyStr("1")} \cup FlatData \cup SeqData \cup NestedData
        \cup ObjectData

-----------------------------------------------------------------------------
(* the program: a Schema is constructed once and called many times *)

NoSchema == None

\* the threads that call the Schema, and a thread that is not in a call
Threads == {1, 2}
IdleCall ==
    [pc |-> "idle", data |-> None, v |-> None, keys |-> <<>>, items |-> <<>>,
     acc |-> [out |-> PyDict(<<>>), errors |-> <<>>, seen |-> {}, raised |-> NoRaise],
     i |-> 0, out |-> <<>>, result |-> NoRaise]
NoExtension == [schema |-> None, required |-> <<>>, extra |-> <<>>]

Init ==
    /\ pc = "start"
    /\ schema = NoSchema
    /\ data = None
    /\ result = NoRaise
    /\ hashseed \in {0, 1}
    /\ extension = NoExtension
    /\ extended = NoSchema
    /\ calls = [t \in Threads |-> IdleCall]

\* Schema.__init__(schema, required, extra): compiles the schema; a
\* SchemaError leaves no Schema object
Construct(tree, required, extra) ==
    /\ pc = "start"
    /\ LET self == SchemaObject(tree, required, extra)
           c == _compile(self, tree)
       IN IF c.ok
          THEN pc' = "ready" /\ schema' = self /\ result' = Return(None)
          ELSE pc' = "schema_error" /\ schema' = NoSchema /\ result' = c
    /\ UNCHANGED <<data, hashseed, extension, extended, calls>>

\* schema(data)
Call(d) ==
    /\ pc = "ready"
    /\ pc' = "returned"
    /\ data' = d
    /\ result' = Schema__call__(schema, d)
    /\ UNCHANGED <<schema, hashseed, extension, extended, calls>>

\* schema(schema(data)): the Schema is called on what it has just returned
CallAgain ==
    /\ pc = "returned"
    /\ result.ok
    /\ pc' = "returned_again"
    /\ data' = result.val
    /\ result' = Schema__call__(schema, result.val)
    /\ UNCHANGED <<schema, hashseed, extension, extended, calls>>

\* schema.extend(other, required, extra): the receiver stays as it is; the
\* new Schema, when there is one, is kept to be called
Extend(other, required, extra) ==
    /\ pc = "ready"
    /\ extension' = [schema |-> other, required |-> required, extra |-> extra]
    /\ result' = extend(schema, other, required, extra)
    /\ IF result'.ok THEN pc' = "extended" /\ extended' = result'.val
                     ELSE pc' = "extend_error" /\ extended' = NoSchema
    /\ UNCHANGED <<schema, data, hashseed, calls>>

\* extended(data)
CallExtended(d) ==
    /\ pc = "extended"
    /\ pc' = "returned_extended"
    /\ data' = d
    /\ result' = Schema__call__(extended, d)
    /\ UNCHANGED <<schema, hashseed, extension, extended, calls>>

\* the caller takes the outcome and is free to call the Schema again
Resume ==
    /\ pc \in {"returned", "returned_again", "extend_error", "returned_extended"}
    /\ pc' = "ready"
    /\ data' = None
    /\ result' = Return(None)
    /\ extension' = NoExtension
    /\ extended' = NoSchema
    /\ UNCHANGED <<schema, hashseed, calls>>

Next ==
    \/ \E tree \in Trees, required \in BOOLEAN,
          extra \in {PREVENT_EXTRA, ALLOW_EXTRA, REMOVE_EXTRA} :
          Construct(tree, required, extra)
    \/ \E d \in Data : Call(d)
    \/ CallAgain
    \/ \E other \in Extensions, o \in Overrides : Extend(other, o[1], o[2])
    \/ \E d \in ExtendedData : CallExtended(d)
    \/ Resume

Spec == Init /\ [][Next]_vars

Called == pc = "returned"
Returned == Called /\ result.ok
Raised == Called /\ ~result.ok

-----------------------------------------------------------------------------
(* what the claims speak of *)

\* two paths are equal as Python lists: element by element with ==
PathEq(p, q) == Len(p) = Len(q) /\ \A i \in DOMAIN p : PyEq(p[i], q[i])

IsDictSchema == schema.schema.t = "dict"
SchemaKeys == {schema.schema.items[i].key : i \in DOMAIN schema.schema.items}
DataKeys == {data.items[i].key : i \in DOMAIN data.items}

\* a marker constructed without default= (default_factory got UNDEFINED)
NoDefault(K) == K.default = default_factory(UNDEFINED)

Aggregate == Raised /\ result.exc.cls = "MultipleInvalid"
Errors == result.exc.errors

\* a mapping call: a mapping schema called on a mapping
MappingCall == Called /\ IsDictSchema /\ data.t = "dict"

-----------------------------------------------------------------------------
\* C1: every call returns a value or raises MultipleInvalid; a callable
\* validator's ValueError or TypeError is reported as the single failure
\* 'not a valid value' of the aggregate, never as another exception.
C1_AlwaysAggregate ==
    Called =>
        /\ result.ok \/ result.exc.cls = "MultipleInvalid"
        /\ (schema.schema.t = "function" /\ ~to_int(data).ok) =>
               /\ Aggregate
               /\ Len(Errors) = 1
               /\ Errors[1].msg = "not a valid value"

-----------------------------------------------------------------------------
\* C2: for a mapping schema with a key Required(k) without default, a call on
\* a mapping that lacks k fails, and the aggregate raised holds a
\* RequiredFieldInvalid whose path is [k] and whose message is the marker's
\* message, or 'required key not provided' when it has none.
C2_RequiredMissing ==
    MappingCall =>
        \A K \in SchemaKeys :
            (K.t = "Required" /\ NoDefault(K) /\ ~DictHas(data, K)) =>
                /\ Raised
                /\ Aggregate =>
                     \E i \in DOMAIN Errors :
                        /\ Errors[i].cls = "RequiredFieldInvalid"
                        /\ PathEq(Errors[i].path, <<K.schema>>)
                        /\ Errors[i].msg = (IF Truthy(K.msg) THEN K.msg.v
                                            ELSE "required key not provided")

\* a call on {'b': ...} of a schema with Required('a', 'm') raised the aggregate
C2_Witness ==
    /\ MappingCall /\ Aggregate
    /\ Required(A, PyStr("m"), UNDEFINED) \in SchemaKeys
    /\ ~DictHas(data, A) /\ DictHas(data, B)

-----------------------------------------------------------------------------
\* C3: a key marked Required, Optional or Inclusive with a declared default
\* that is absent from the input causes no failure for that key, and the
\* output maps the key to the default.
C3_DefaultInserted ==
    MappingCall =>
        \A K \in SchemaKeys :
            (K.t \in {"Required", "Optional", "Inclusive"} /\ ~NoDefault(K)
                /\ ~DictHas(data, K)) =>
                /\ Aggregate =>
                     ~\E i \in DOMAIN Errors : PathEq(Errors[i].path, <<K.schema>>)
                /\ Returned =>
                     /\ DictHas(result.val, K)
                     /\ DictGet(result.val, K) = K.default.returns

-----------------------------------------------------------------------------
\* C4: an input key that matches no schema key is treated by the policy:
\* PREVENT_EXTRA fails with a failure whose path is [key], ALLOW_EXTRA puts
\* the key and its value unchanged in the output, REMOVE_EXTRA leaves the key
\* out of the output, and neither of the two records a failure for it.  The
\* keys that match a schema key fare the same under the three policies.

Unmatched(k) == ~\E K \in SchemaKeys : KeyMatches(K, k)

RECURSIVE HasDict(_)
HasDict(x) ==
    \/ x.t = "dict"
    \/ x.t \in SeqKinds /\ \E i \in DOMAIN x.elems : HasDict(x.elems[i])

\* what a call records for the keys that match: the failures other than
\* those of extra keys, and the matched part of the output
NonExtraErrors(r) ==
    IF r.ok THEN <<>>
    ELSE IF r.exc.cls = "MultipleInvalid"
         THEN SelectSeq(r.exc.errors, LAMBDA e : e.msg # "extra keys not allowed")
    ELSE <<r.exc>>
MatchedOut(r) ==
    IF r.ok THEN SelectSeq(r.val.items, LAMBDA it : ~Unmatched(it.key)) ELSE <<>>

ExtraKeyFailure(e, k) ==
    e.cls = "Invalid" /\ e.msg = "extra keys not allowed" /\ PathEq(e.path, <<k>>)

C4_ExtraKeyPolicy ==
    MappingCall =>
        /\ \A k \in DataKeys : Unmatched(k) =>
            /\ schema.extra = PREVENT_EXTRA =>
                 /\ Raised
                 /\ Aggregate => \E i \in DOMAIN Errors : ExtraKeyFailure(Errors[i], k)
            /\ schema.extra = ALLOW_EXTRA =>
                 /\ Returned => /\ DictHas(result.val, k)
                                /\ DictGet(result.val, k) = DictGet(data, k)
                 /\ Aggregate => ~\E i \in DOMAIN Errors : PathEq(Errors[i].path, <<k>>)
            /\ schema.extra = REMOVE_EXTRA =>
                 /\ Returned => ~DictHas(result.val, k)
                 /\ Aggregate => ~\E i \in DOMAIN Errors : PathEq(Errors[i].path, <<k>>)
        /\ (\A k \in DataKeys : ~HasDict(DictGet(data, k))) =>
            \A p \in {PREVENT_EXTRA, ALLOW_EXTRA, REMOVE_EXTRA} :
                LET r == Schema__call__([schema EXCEPT !.extra = p], data) IN
                /\ NonExtraErrors(r) = NonExtraErrors(result)
                /\ (r.ok /\ result.ok) => MatchedOut(r) = MatchedOut(result)

\* a call under REMOVE_EXTRA returned an output without the extra key 'c'
\* of the input, with the matched key 'a' in it
C4_Witness ==
    /\ MappingCall /\ Returned
    /\ schema.extra = REMOVE_EXTRA
    /\ DictHas(data, C) /\ Unmatched(C) /\ ~DictHas(result.val, C)
    /\ DictHas(data, A) /\ ~Unmatched(A) /\ DictHas(result.val, A)

-----------------------------------------------------------------------------
\* C5: when more than one key of an Exclusive group g is in the input, the
\* call fails with an ExclusiveInvalid whose path is [<g>]; with no or one
\* key of the group in the input there is no such failure.

GroupKeys(cls, g) == {K \in SchemaKeys : K.t = cls /\ K.group = g}
GroupsOf(cls) == {K.group : K \in {K \in SchemaKeys : K.t = cls}}
Present(cls, g) == {K \in GroupKeys(cls, g) : DictHas(data, K)}
GroupFailure(cls, g) ==
    /\ Aggregate
    /\ \E i \in DOMAIN Errors :
          /\ Errors[i].cls = cls
          /\ Errors[i].path = <<VirtualPathComponent(g.v)>>

C5_ExclusiveGroup ==
    MappingCall =>
        \A g \in GroupsOf("Exclusive") :
            IF Cardinality(Present("Exclusive", g)) > 1
            THEN GroupFailure("ExclusiveInvalid", g)
            ELSE ~GroupFailure("ExclusiveInvalid", g)

-----------------------------------------------------------------------------
\* C6: when some but not all keys of an Inclusive group s are in the input,
\* the call fails with an InclusiveInvalid whose path is [<s>]; with none or
\* all of them in the input there is no such failure.
C6_InclusiveGroup ==
    MappingCall =>
        \A g \in GroupsOf("Inclusive") :
            IF /\ Present("Inclusive", g) # {}
               /\ Present("Inclusive", g) # GroupKeys("Inclusive", g)
            THEN GroupFailure("InclusiveInvalid", g)
            ELSE ~GroupFailure("InclusiveInvalid", g)

-----------------------------------------------------------------------------
\* C7: the path of every failure is the route of keys and indices from the
\* root to the offending value: schema {a: [{b: int}]} on {a: [{b: 'x'}]}
\* fails with path [a, 0, b], and a value that does not match the scalar
\* schema of its key k in a mapping fails with path [k].

ScalarRejects(sub, value) ==
    sub.t \in {"type", "str", "int"} /\ ~Apply(schema, _compile_scalar(sub), <<>>, value).ok

C7_PathIsRoute ==
    /\ (/\ Called
        /\ schema.schema = PyDict(<<Item(A, PySeq("list", <<PyDict(<<Item(B, int)>>)>>))>>)
        /\ data = PyDict(<<Item(A, PySeq("list", <<PyDict(<<Item(B, X)>>)>>))>>))
       => /\ Aggregate
          /\ \A i \in DOMAIN Errors : PathEq(Errors[i].path, <<A, PyInt("0"), B>>)
    /\ (MappingCall /\ Aggregate) =>
          \A i \in DOMAIN schema.schema.items :
              LET K == schema.schema.items[i].key
                  sub == schema.schema.items[i].value
              IN (K.t # "type" /\ DictHas(data, K) /\ ScalarRejects(sub, DictGet(data, K)))
                 => \E j \in DOMAIN Errors : PathEq(Errors[j].path, <<K>>)

-----------------------------------------------------------------------------
\* C8: the aggregate a mapping call raises lists every failure as an entry
\* of its own: each missing required key, each prevented extra key, and each
\* leaf failure of a nested mapping (no entry is itself an aggregate).
C8_EveryFailureListed ==
    (MappingCall /\ Aggregate) =>
        /\ \A K \in SchemaKeys : (K.t = "Required" /\ ~DictHas(data, K)) =>
              \E i \in DOMAIN Errors :
                 Errors[i].cls = "RequiredFieldInvalid" /\ PathEq(Errors[i].path, <<K>>)
        /\ \A k \in DataKeys : (Unmatched(k) /\ schema.extra = PREVENT_EXTRA) =>
              \E i \in DOMAIN Errors : ExtraKeyFailure(Errors[i], k)
        /\ \A i \in DOMAIN Errors : Errors[i].cls # "MultipleInvalid"

-----------------------------------------------------------------------------
\* C9: with required=True a plain (unmarked) key of the mapping schema that
\* is absent from the input fails the call with a RequiredFieldInvalid;
\* with required=False no absent plain key does, and an absent Optional key
\* never does.
MissingFieldFailure(K) ==
    /\ Aggregate
    /\ \E i \in DOMAIN Errors :
          Errors[i].cls = "RequiredFieldInvalid" /\ PathEq(Errors[i].path, <<K>>)

C9_RequiredFlag ==
    MappingCall =>
        \A K \in SchemaKeys : ~DictHas(data, K) =>
            /\ (~IsMarker(K) /\ K.t # "type") =>
                  IF schema.required
                  THEN Raised /\ (Aggregate => MissingFieldFailure(K))
                  ELSE ~MissingFieldFailure(K)
            /\ K.t = "Optional" => ~MissingFieldFailure(K)

-----------------------------------------------------------------------------
\* C10: a schema that is a list, a tuple or a set rejects every input of
\* another class with a SequenceTypeInvalid, whatever its elements, and what
\* it returns is of the class of the schema.
C10_SequenceKind ==
    (Called /\ schema.schema.t \in SeqKinds) =>
        /\ data.t # schema.schema.t =>
              /\ Aggregate
              /\ Len(Errors) = 1
              /\ Errors[1].cls = "SequenceTypeInvalid"
        /\ Returned => result.val.t = schema.schema.t

\* the schema [int] called on the set {1} raised SequenceTypeInvalid
C10_Witness ==
    /\ Raised
    /\ schema.schema = PySeq("list", <<int>>)
    /\ data = PySeq("set", <<One>>)
    /\ result.exc.errors[1].cls = "SequenceTypeInvalid"

-----------------------------------------------------------------------------
\* C11: what a Remove marker matches is left out of the output and causes no
\* failure: an input key equal to a schema key Remove(k) is not in the
\* output mapping, and an input element whose first accepting candidate is a
\* Remove marker has no element in the output (nothing stands in its place).

SequenceCall == Called /\ schema.schema.t \in SeqKinds /\ data.t = schema.schema.t

\* the index of the first candidate that accepts the value, 0 when none does
FirstAccepting(cands, value) ==
    LET acc == {j \in DOMAIN cands :
                  CompileAndApply(schema, cands[j], <<>>, value).ok}
    IN IF acc = {} THEN 0 ELSE CHOOSE j \in acc : \A k \in acc : j <= k

RemovedElement(value) ==
    LET j == FirstAccepting(schema.schema.elems, value)
    IN j > 0 /\ schema.schema.elems[j].t = "Remove"

C11_RemoveExcludes ==
    /\ MappingCall =>
          \A K \in SchemaKeys : (K.t = "Remove" /\ DictHas(data, K.schema)) =>
              /\ Returned => ~DictHas(result.val, K.schema)
              /\ Aggregate => ~\E i \in DOMAIN Errors : PathEq(Errors[i].path, <<K>>)
    /\ (SequenceCall /\ data.t = "list"
          /\ \A i \in DOMAIN data.elems :
                FirstAccepting(schema.schema.elems, data.elems[i]) > 0) =>
          /\ Returned
          /\ Len(result.val.elems) =
                Cardinality({i \in DOMAIN data.elems : ~RemovedElement(data.elems[i])})

-----------------------------------------------------------------------------
\* C12: extend on two mapping schemas returns a new Schema whose keys are
\* those of both: every key of the other schema is in it as the other
\* schema defines it (its marker and its value schema), every key of the
\* receiver with no key of the same string form in the other is in it as
\* the receiver defines it, and it has no other key; required and extra are
\* the receiver's unless given.  Schema({a: 'x'}).extend({a: int, b: int})
\* accepts {a: 1, b: 1} and rejects {a: 'x', b: 1}.

OtherTree ==
    IF extension.schema.t = "Schema" THEN extension.schema.schema ELSE extension.schema

\* extend was called on a mapping schema with a well-formed mapping schema
ExtendCase ==
    /\ pc \in {"extended", "extend_error"}
    /\ schema.schema.t = "dict"
    /\ OtherTree.t = "dict"
    /\ Schema__init__(OtherTree, FALSE, PREVENT_EXTRA).ok

Overridden(item) ==
    \E i \in DOMAIN OtherTree.items : StrOf(OtherTree.items[i].key) = StrOf(item.key)

Range(q) == {q[i] : i \in DOMAIN q}

C12_ExtendOverrides ==
    /\ ExtendCase =>
          /\ pc = "extended"
          /\ Range(extended.schema.items) =
                Range(OtherTree.items)
                \cup {it \in Range(schema.schema.items) : ~Overridden(it)}
          /\ extended.required = (IF extension.required = <<>> THEN schema.required
                                  ELSE extension.required[1])
          /\ extended.extra = (IF extension.extra = <<>> THEN schema.extra
                               ELSE extension.extra[1])
    /\ (/\ pc = "returned_extended"
        /\ schema.schema = PyDict(<<Item(A, X)>>)
        /\ extension.schema = PyDict(<<Item(A, int), Item(B, int)>>)) =>
          /\ data = PyDict(<<Item(A, One), Item(B, One)>>) => result.ok
          /\ data = PyDict(<<Item(A, X), Item(B, One)>>) => ~result.ok

-----------------------------------------------------------------------------
\* C13: for a schema without coercing predicates (no function in its tree)
\* and an input it accepts, calling the schema on its own output returns
\* that output again.

RECURSIVE HasFunction(_)
HasFunction(x) ==
    \/ x.t = "function"
    \/ x.t = "dict" /\ \E i \in DOMAIN x.items :
                          HasFunction(x.items[i].key) \/ HasFunction(x.items[i].value)
    \/ x.t \in SeqKinds /\ \E i \in DOMAIN x.elems : HasFunction(x.elems[i])
    \/ (IsMarker(x) \/ x.t \in {"Schema", "Msg"}) /\ HasFunction(x.schema)

C13_Idempotent ==
    (pc = "returned_again" /\ ~HasFunction(schema.schema)) =>
        result.ok /\ result.val = data

-----------------------------------------------------------------------------
\* C14: a schema tree with a mapping, at the top or nested, in which two key
\* labels (marked or plain) have the same string form is refused when the
\* Schema is constructed; no call of a Schema ever raises SchemaError.

RECURSIVE HasDuplicateLabels(_)
HasDuplicateLabels(x) ==
    \/ x.t = "dict" /\
          \/ \E i, j \in DOMAIN x.items :
                i # j /\ StrOf(x.items[i].key) = StrOf(x.items[j].key)
          \/ \E i \in DOMAIN x.items : HasDuplicateLabels(x.items[i].value)
    \/ x.t \in SeqKinds /\ \E i \in DOMAIN x.elems : HasDuplicateLabels(x.elems[i])

CallEnded == pc \in {"returned", "returned_again", "returned_extended"}

C14_DuplicatesAtConstruction ==
    /\ pc = "ready" => ~HasDuplicateLabels(schema.schema)
    /\ CallEnded => (result.ok \/ result.exc.cls # "SchemaError")

-----------------------------------------------------------------------------
\* C15: a Schema of Object(mapping, cls=C) validates an instance by its
\* attributes: an input that is no instance of C fails with ObjectInvalid;
\* an instance of C whose attributes fit the mapping is accepted, and one
\* with an attribute that does not fit fails with a failure at that attribute
\* and never with the DictInvalid 'expected a dictionary'.

ObjectCall == Called /\ schema.schema.t = "Object" /\ data.t \in {"Structure", "Point"}

C15_ObjectByAttributes ==
    ObjectCall =>
        IF schema.schema.cls # UNDEFINED /\ data.t # schema.schema.cls.v
        THEN Aggregate /\ \E i \in DOMAIN Errors : Errors[i].cls = "ObjectInvalid"
        ELSE /\ Aggregate => \A i \in DOMAIN Errors : Errors[i].cls # "DictInvalid"
             /\ (\A i \in DOMAIN data.items :
                    data.items[i] \in Range(schema.schema.items)) => Returned
             /\ (\E i \in DOMAIN data.items :
                    data.items[i].key = A /\ data.items[i].value # X) =>
                    Aggregate /\ \E i \in DOMAIN Errors : PathEq(Errors[i].path, <<A>>)

-----------------------------------------------------------------------------
\* C16: a sequence schema with candidates tries them on each element in the
\* order of the schema: the output element is what the first candidate that
\* returns gives, the candidates before it having refused the element; the
\* first element that every candidate refuses fails the call at once with
\* the one failure 'not a valid value for sequence item', whatever comes
\* after it; the output of a list or tuple has the elements in input order.

Outcome(cand, value) == CompileAndApply(schema, cand, <<>>, value)
Refuses(cand, value) == ~Outcome(cand, value).ok /\ IsInvalid(Outcome(cand, value).exc)

\* the first candidate that returns after refusals only, 0 when there is none
Winner(value) ==
    LET cands == schema.schema.elems
        w == {j \in DOMAIN cands :
                /\ Outcome(cands[j], value).ok
                /\ \A k \in 1..(j - 1) : Refuses(cands[k], value)}
    IN IF w = {} THEN 0 ELSE CHOOSE j \in w : TRUE

Unmatched16 == {i \in DOMAIN data.elems : Winner(data.elems[i]) = 0}

-----------------------------------------------------------------------------
\* C17: an input key equal to a declared key is validated against the
\* schema of that key even when a type key of the schema matches it too:
\* called on a mapping with that one key, the schema accepts exactly when the
\* declared key's schema accepts the value.  An input key that equals no
\* declared key and is an instance of a type key T is in the output as T(key).

LiteralKey(K) == ~IsMarker(K) /\ K.t # "type"

C17_ExactKeyFirst ==
    MappingCall =>
        /\ \A i \in DOMAIN schema.schema.items :
              LET K == schema.schema.items[i].key
                  sub == schema.schema.items[i].value
              IN (/\ LiteralKey(K)
                  /\ \E T \in SchemaKeys : T.t = "type" /\ IsInstance(K, T.v)
                  /\ DataKeys = {K}) =>
                     (Returned <=> Outcome(sub, DictGet(data, K)).ok)
        /\ \A k \in DataKeys, T \in SchemaKeys :
              (/\ T.t = "type" /\ IsInstance(k, T.v)
               /\ ~\E K \in SchemaKeys : K.t # "type" /\ PyEq(K, k)
               /\ Returned) =>
                  DictHas(result.val, Construct_(T.v, k))

-----------------------------------------------------------------------------
\* C18: the failures of a mapping call come in the order in which the keys
\* of the schema are processed (Required keys first, by string form), not
\* in the order of the input: the same pairs given in the reverse insertion
\* order raise the same failures in the same order, and the failures for
\* missing Required keys are in the order of their string forms.

Reversed(d) == [d EXCEPT !.items = Reverse(@)]

MissingRequired == SelectSeq(Errors, LAMBDA e : e.cls = "RequiredFieldInvalid")

C18_FailureOrder ==
    (MappingCall /\ Aggregate) =>
        /\ ~Schema__call__(schema, Reversed(data)).ok
        /\ Schema__call__(schema, Reversed(data)).exc.cls = "MultipleInvalid"
        /\ Schema__call__(schema, Reversed(data)).exc.errors = Errors
        /\ \A i, j \in DOMAIN MissingRequired :
              i < j => StrRank(StrOf(MissingRequired[i].path[1]))
                         <= StrRank(StrOf(MissingRequired[j].path[1]))

-----------------------------------------------------------------------------
\* C19: the message of a Msg wrapper replaces the message of a failure at
\* the wrapped schema's own site only: when the wrapped schema is a list of
\* lists and the failure is that of an element of an inner list (as with
\* Msg([[int]], 'm') on [['x']]), the failure raised keeps its own message;
\* a failure of the wrapped schema itself or of one of its elements carries
\* the message of the wrapper.

MsgCall == Called /\ schema.schema.t = "Msg"

\* the failure lies within an inner list: the input is a list of lists for
\* a list-of-lists schema
InnerFailure ==
    /\ schema.schema.schema.t = "list" /\ data.t = "list"
    /\ \A j \in DOMAIN schema.schema.schema.elems : schema.schema.schema.elems[j].t = "list"
    /\ \A i \in DOMAIN data.elems : data.elems[i].t = "list"

C19_DeepFailureKeepsMessage ==
    (MsgCall /\ Raised /\ schema.schema.schema.t = "list") =>
        /\ Aggregate
        /\ IF InnerFailure THEN \A i \in DOMAIN Errors : Errors[i].msg # schema.schema.msg.v
           ELSE \E i \in DOMAIN Errors : Errors[i].msg = schema.schema.msg.v

-----------------------------------------------------------------------------
(* several invocations of one Schema at the same time: every invocation runs
   validate_dict / validate_sequence on its own frame, one loop turn at a
   time, and the turns of different invocations interleave *)

ThreadTrees ==
    {PyDict(<<Item(Required(A, None, UNDEFINED), int), Item(B, int)>>),
     PyDict(<<Item(A, X), Item(Optional(B, None, UNDEFINED), lambda_int)>>),
     PyDict(<<Item(A, PyDict(<<Item(B, int)>>))>>),
     PySeq("list", <<int>>),
     PySeq("list", <<X, int>>),
     int}

ThreadData ==
    {PyDict(<<>>),
     PyDict(<<Item(A, One), Item(B, One)>>),
     PyDict(<<Item(A, X), Item(C, One)>>),
     PyDict(<<Item(B, X), Item(A, PyDict(<<Item(B, X)>>))>>),
     PySeq("list", <<One, X>>),
     PySeq("list", <<X, PyStr("1")>>),
     One}

\* the frame of invocation t starts with out = {}, errors = [] and
\* seen_keys = set() of its own
Locals_SharedErrors(t) ==
    [out |-> PyDict(<<>>),
     errors |-> calls[CHOOSE u \in Threads : u # t].acc.errors,
     seen |-> {}, raised |-> NoRaise]

Locals(t) ==
    [out |-> PyDict(<<>>), errors |-> <<>>, seen |-> {}, raised |-> NoRaise]

Compiled == _compile(schema, schema.schema).val

\* the invocation ends with outcome r
EndCall(t, r) ==
    calls' = [calls EXCEPT ![t].pc = "done", ![t].result = CallExcept(r)]

\* thread t calls schema(d): the compiled validator checks the type of d and
\* enters its loop; a validator without a loop ends at once
Begin(t, d) ==
    /\ pc = "ready"
    /\ calls[t].pc = "idle"
    /\ IF Compiled.fn = "validate_dict" /\ IsInstance(d, "dict")
       THEN calls' = [calls EXCEPT ![t] =
                         [IdleCall EXCEPT !.pc = "required", !.data = d,
                                          !.v = Compiled,
                                          !.keys = Compiled.required_keys,
                                          !.items = d.items,
                                          !.acc = Locals(t)]]
       ELSE IF /\ Compiled.fn = "validate_sequence"
               /\ SeqTypeOk(d, Compiled.seq_type)
               /\ ~(Compiled.schema.elems = <<>> /\ d.elems # <<>>)
       THEN calls' = [calls EXCEPT ![t] =
                         [IdleCall EXCEPT !.pc = "elements", !.data = d,
                                          !.v = Compiled, !.i = 1]]
       ELSE calls' = [calls EXCEPT ![t] =
                         [IdleCall EXCEPT !.pc = "done", !.data = d,
                                          !.v = Compiled,
                                          !.result = Schema__call__(schema, d)]]
    /\ UNCHANGED <<pc, schema, data, result, hashseed, extension, extended>>

\* one turn of "for key in required_keys" in the frame of t
StepRequired(t) ==
    /\ calls[t].pc = "required"
    /\ IF calls[t].keys = <<>> \/ ~calls[t].acc.raised.ok
       THEN calls' = [calls EXCEPT ![t].pc = "data"]
       ELSE calls' = [calls EXCEPT
                        ![t].acc = RequiredStep(schema, calls[t].v, <<>>, calls[t].data,
                                                Head(calls[t].keys), calls[t].acc),
                        ![t].keys = Tail(@)]
    /\ UNCHANGED <<pc, schema, data, result, hashseed, extension, extended>>

\* one turn of "for key, value in data.items()" in the frame of t, and the
\* end of validate_dict after the last turn
StepData(t) ==
    /\ calls[t].pc = "data"
    /\ IF calls[t].items = <<>> \/ ~calls[t].acc.raised.ok
       THEN EndCall(t, RaiseOrReturn(calls[t].acc))
       ELSE calls' = [calls EXCEPT
                        ![t].acc = DataStep(schema, calls[t].v, <<>>,
                                            Head(calls[t].items), calls[t].acc),
                        ![t].items = Tail(@)]
    /\ UNCHANGED <<pc, schema, data, result, hashseed, extension, extended>>

\* the element of t's input that the next turn validates, tried against the
\* candidates in order
TryElement(t) ==
    TryCandidates(schema, calls[t].v.schema.elems,
                  <<PyInt(ToString(calls[t].i - 1))>>, calls[t].data.elems[calls[t].i])

\* the turn of "for i, value in enumerate(data)" ends with t: the element is
\* appended to out, or the invocation fails
ElementStep(t, tried) ==
    IF tried.valid
    THEN calls' = [calls EXCEPT ![t].out = Append(@, tried.r.val), ![t].i = @ + 1]
    ELSE IF ~tried.r.ok THEN EndCall(t, tried.r)
    ELSE EndCall(t, Raise(Invalid("Invalid", "not a valid value for sequence item", <<>>)))

\* one turn of the loop of validate_sequence in the frame of t, and its end
\* after the last turn
StepElement(t) ==
    /\ calls[t].pc = "elements"
    /\ IF calls[t].i > Len(calls[t].data.elems)
       THEN EndCall(t, SeqTypeReturn(calls[t].v.seq_type, Return(calls[t].out)))
       ELSE ElementStep(t, TryElement(t))
    /\ UNCHANGED <<pc, schema, data, result, hashseed, extension, extended>>

\* the caller of t takes the outcome; t is free for another invocation
Take(t) ==
    /\ calls[t].pc = "done"
    /\ calls' = [calls EXCEPT ![t] = IdleCall]
    /\ UNCHANGED <<pc, schema, data, result, hashseed, extension, extended>>

NextThreads ==
    \/ \E tree \in ThreadTrees, extra \in {PREVENT_EXTRA, ALLOW_EXTRA, REMOVE_EXTRA} :
          Construct(tree, FALSE, extra)
    \/ \E t \in Threads, d \in ThreadData : Begin(t, d)
    \/ \E t \in Threads : StepRequired(t)
    \/ \E t \in Threads : StepData(t)
    \/ \E t \in Threads : StepElement(t)
    \/ \E t \in Threads : Take(t)

SpecThreads == Init /\ [][NextThreads]_vars

\* C20: invocations of one Schema that interleave share no mutable state:
\* each of them ends with the outcome the same call has when it runs alone, and
\* no step of an invocation changes the Schema (its tree, its required flag,
\* its extra policy) or the input of any invocation in progress.
C20_NoSharedState ==
    /\ [](\A t \in Threads :
             calls[t].pc = "done" =>
                 calls[t].result = Schema__call__(schema, calls[t].data))
    /\ [][/\ pc = "ready" => schema' = schema
          /\ \A t \in Threads :
                 (calls[t].pc # "idle" /\ calls'[t].pc # "idle") =>
                     calls'[t].data = calls[t].data]_vars

\* one invocation has ended with its output while the other, begun on a
\* different input, is between two turns with a failure already collected
C20_Witness ==
    /\ calls[1].pc = "done"
    /\ calls[1].result.ok
    /\ calls[2].pc = "data"
    /\ calls[2].acc.errors # <<>>
    /\ calls[2].items # <<>>
    /\ calls[2].data # calls[1].data

====
